---- MODULE Spec2Model ----
(***************************************************************************)
(* State-machine model of main.py: the now-playing poller with retries,   *)
(* the render loop with its change detection and exception handler, the   *)
(* artwork resolver, the cover-fit step, the text fitter                  *)
(* (adjust_font_size) and the truncation pass (truncate_text).            *)
(*                                                                         *)
(* Strings are sequences of one-character strings.  A font is a record    *)
(* [units, size]: the rendered width of a text is size times the sum of   *)
(* the per-character units, which stands for draw.textbbox of Pillow.     *)
(***************************************************************************)
EXTENDS Integers, Sequences, FiniteSets, TLC

VARIABLES
    \* ---- render loop (module level of main.py) ----
    pc,                 \* position of the main loop
    last_songname,      \* global last_songname
    songname,           \* poll result
    artistname,
    album_art_url,
    attempt,            \* loop variable of fetch_now_playing_with_retries
    requests,           \* requests.get calls made by the running poll
    poll_result,        \* how the running poll returned
    FALLBACK_LOGO_FULL, \* fallback logo loaded at start-up, or NoImage
    album_art_full_res, \* artwork used by the running render
    art_fetch,          \* what the artwork fetch of the running render did
    output_image,       \* the canvas being composed
    final_size,         \* uniform font size of the running render
    artistname_display,
    songname_display,
    file,               \* what lies at output_image_path
    \* history variables of the render loop
    iter_last,          \* last_songname when the iteration began
    rendered,           \* the iteration entered the render branch
    wrote,              \* the iteration called output_image.save
    last_saved,         \* title of the most recent image saved with success
    failed_title,       \* title whose render raised in the previous iteration
    failed_at,          \* step of the iteration at which an exception escaped
    \* ---- truncate_text applied to a drawn input ----
    tr_pc, tr_text, tr_font, tr_max_width, tr_out1, tr_out2,
    \* ---- uniform font size of a drawn pair of strings ----
    fit_pc, fit_artist, fit_title, fit_max_width, fit_raiseA, fit_raiseT, fit_size,
    \* ---- cover-fit of a drawn artwork ----
    cv_pc, cv_art, cv_scaled, cv_box, cv_out

loopVars == <<pc, last_songname, songname, artistname, album_art_url, attempt,
              requests, poll_result, FALLBACK_LOGO_FULL, album_art_full_res, art_fetch,
              output_image, final_size, artistname_display, songname_display,
              file, iter_last, rendered, wrote, last_saved, failed_title,
              failed_at>>
truncVars == <<tr_pc, tr_text, tr_font, tr_max_width, tr_out1, tr_out2>>
fitVars == <<fit_pc, fit_artist, fit_title, fit_max_width, fit_raiseA,
             fit_raiseT, fit_size>>
coverVars == <<cv_pc, cv_art, cv_scaled, cv_box, cv_out>>
vars == <<loopVars, truncVars, fitVars, coverVars>>

----------------------------------------------------------------------------
\* Program constants

TARGET_WIDTH == 320
TARGET_HEIGHT == 240
LOGO_BLOCK_SIZE == 55
TEXT_BG_HEIGHT == 55
INITIAL_FONT_SIZE == 20
TEXT_LEFT_PADDING == 10
TEXT_RIGHT_MARGIN == 5
MAX_RETRIES == 5

TEXT_BLOCK_LEFT_EDGE == LOGO_BLOCK_SIZE + TEXT_LEFT_PADDING
TEXT_BLOCK_RIGHT_EDGE == TARGET_WIDTH - TEXT_RIGHT_MARGIN
max_text_width == TEXT_BLOCK_RIGHT_EDGE - TEXT_BLOCK_LEFT_EDGE

----------------------------------------------------------------------------
\* Bounds of the model

MaxTruncLen == 5      \* longest text drawn for truncate_text
MaxCharWidth == 3     \* widest character drawn for truncate_text
MaxTruncWidth == 8    \* largest max_width drawn for truncate_text
MaxFitLen == 2        \* longest string drawn for the text fitter
MaxWidthExp == 3      \* max_width of the text fitter ranges over 5^0 .. 5^MaxWidthExp
MaxDim == 40          \* largest artwork side drawn for the cover-fit

----------------------------------------------------------------------------
\* Strings and values

None == <<"<None>">>          \* Python None in a string position
Truthy(s) == s # None /\ s # <<>>
NoImage == [w |-> 0, h |-> 0, src |-> "none"]

Min(a, b) == IF a <= b THEN a ELSE b

SeqsUpTo(S, n) == UNION {[1..k -> S] : k \in 0..n}

UpperChar(c) == CASE c = "a" -> "A" [] c = "b" -> "B" [] c = "w" -> "W" [] OTHER -> c
upper(text) == [i \in 1..Len(text) |-> UpperChar(text[i])]

Ellipsis == <<".", ".", ".">>

----------------------------------------------------------------------------
\* Text measurement

RECURSIVE SumUnits(_, _)
SumUnits(text, units) ==
    IF text = <<>> THEN 0 ELSE units[Head(text)] + SumUnits(Tail(text), units)

\* draw.textbbox((0, 0), text, font=font)[2], with bbox[0] = 0
textbbox(text, font) == font.size * SumUnits(text, font.units)

\* ImageFont.truetype(path, size): the same face at another size
truetype(font, size) == [units |-> font.units, size |-> size]

----------------------------------------------------------------------------
\* truncate_text

RECURSIVE truncate_loop(_, _, _, _)
truncate_loop(text, original_text, font, max_width) ==
    IF textbbox(text, font) > max_width /\ Len(text) > 3
    THEN LET t == SubSeq(text, 1, Len(text) - 4) \o Ellipsis
         IN  IF Len(t) <= 3 /\ Len(original_text) > 3
             THEN SubSeq(original_text, 1, 3) \o Ellipsis
             ELSE truncate_loop(t, original_text, font, max_width)
    ELSE text

truncate_text(text, font, max_width) == truncate_loop(text, text, font, max_width)

----------------------------------------------------------------------------
\* adjust_font_size
\* raiseAt is the font size at which draw.textbbox raises for this text
\* (0: it never raises).  The function returns the font it stopped at.

\* adjust_loop with the lower limit of the size off by one (size > 0)
RECURSIVE adjust_loop_to_zero(_, _, _, _, _)
adjust_loop_to_zero(text, current_font, width, max_width, raiseAt) ==
    IF width > max_width /\ current_font.size > 0
    THEN LET new_size == current_font.size - 1
             new_font == truetype(current_font, new_size)
         IN  IF raiseAt = new_size
             THEN new_font
             ELSE adjust_loop_to_zero(text, new_font, textbbox(text, new_font),
                                      max_width, raiseAt)
    ELSE current_font

RECURSIVE adjust_loop(_, _, _, _, _)
adjust_loop(text, current_font, width, max_width, raiseAt) ==
    IF width > max_width /\ current_font.size > 1
    THEN LET new_size == current_font.size - 1
             new_font == truetype(current_font, new_size)
         IN  IF raiseAt = new_size
             THEN new_font
             ELSE adjust_loop(text, new_font, textbbox(text, new_font),
                              max_width, raiseAt)
    ELSE current_font

adjust_font_size(text, font, max_width, raiseAt) ==
    IF raiseAt = font.size
    THEN font
    ELSE adjust_loop(text, font, textbbox(text, font), max_width, raiseAt)

\* Lines 360-364: the artist as polled and the title, fitted one by one
uniform_size(artist, title, font, max_width, raiseA, raiseT) ==
    LET artist_font_adjusted == adjust_font_size(artist, font, max_width, raiseA)
        title_font_adjusted == adjust_font_size(title, font, max_width, raiseT)
    IN  Min(artist_font_adjusted.size, title_font_adjusted.size)

\* Face metrics of the base font: units of width per point of size
BaseUnits == [c \in {"a", "b", "A", "B", "w", "W", "."} |->
                 CASE c \in {"a", "b", "."} -> 1
                   [] c \in {"A", "B"} -> 2
                   [] c = "w" -> 30
                   [] OTHER -> 60]
base_font == [units |-> BaseUnits, size |-> INITIAL_FONT_SIZE]

----------------------------------------------------------------------------
\* Cover-fit (lines 284-299)

RECURSIVE Gcd(_, _)
Gcd(a, b) == IF b = 0 THEN a ELSE Gcd(b, a % b)

RECURSIVE IsPow2(_)
IsPow2(n) == IF n = 1 THEN TRUE ELSE IF n % 2 = 1 THEN FALSE ELSE IsPow2(n \div 2)

\* img_ratio = width / height is a double: it is the exact quotient only
\* when the reduced denominator is a power of two.
RatioExact(w, h) == IsPow2(h \div Gcd(w, h))

\* int(x) of a double x whose exact value is num/den.  When the ratio was
\* rounded and num/den is an integer k, the double may lie just below k and
\* int() gives k - 1; at the ratio 320/240 itself the double of 4/3 lies
\* below 4/3, so 320 / img_ratio lies above 240 and int() gives 240.
IntOfFloat(num, den, w, h) ==
    IF num % den = 0 /\ ~RatioExact(w, h) /\ 3 * w # 4 * h
    THEN {(num \div den) - 1, num \div den}
    ELSE {num \div den}

\* round(n2 / 2) of Python 3 (ties go to the even integer)
RoundHalf(n2) ==
    LET k == n2 \div 2
    IN  IF n2 % 2 = 0 THEN k ELSE IF k % 2 = 0 THEN k ELSE k + 1

\* the comparison of the ratios turned round
RelativelyNarrower(art) == art.w * TARGET_HEIGHT < art.h * TARGET_WIDTH

\* img_ratio > output_ratio
RelativelyWider(art) == art.w * TARGET_HEIGHT > art.h * TARGET_WIDTH

\* The sizes resize() can be asked for: (new_width, new_height)
scaled_sizes(art) ==
    IF RelativelyWider(art)
    THEN {[w |-> nw, h |-> TARGET_HEIGHT] :
             nw \in IntOfFloat(TARGET_HEIGHT * art.w, art.h, art.w, art.h)}
    ELSE {[w |-> TARGET_WIDTH, h |-> nh] :
             nh \in IntOfFloat(TARGET_WIDTH * art.h, art.w, art.w, art.h)}

\* The box Image.crop cuts, after its rounding of the float corners
crop_box(art, scaled) ==
    IF RelativelyWider(art)
    THEN [x0 |-> RoundHalf(scaled.w - TARGET_WIDTH), y0 |-> 0,
          x1 |-> RoundHalf(scaled.w - TARGET_WIDTH + 2 * TARGET_WIDTH),
          y1 |-> TARGET_HEIGHT]
    ELSE [x0 |-> 0, y0 |-> RoundHalf(scaled.h - TARGET_HEIGHT),
          x1 |-> TARGET_WIDTH,
          y1 |-> RoundHalf(scaled.h - TARGET_HEIGHT + 2 * TARGET_HEIGHT)]

\* Image.new("RGBA", (TARGET_WIDTH, TARGET_HEIGHT), ...): the blank canvas
new_canvas == [w |-> TARGET_WIDTH, h |-> TARGET_HEIGHT, bg |-> "black",
               thumb |-> FALSE, bar |-> FALSE, logo |-> FALSE, text |-> FALSE]

\* output_image.paste(blurred_background, (0, 0)): the canvas keeps its size
paste_background(canvas, box) ==
    [canvas EXCEPT !.bg = IF box.x1 - box.x0 >= canvas.w /\ box.y1 - box.y0 >= canvas.h
                          THEN "art" ELSE "partial"]

----------------------------------------------------------------------------
\* Rest values of the variables a specification does not use

IdleLoop ==
    /\ pc = "idle" /\ last_songname = <<>> /\ songname = None
    /\ artistname = None /\ album_art_url = "None" /\ attempt = 0
    /\ requests = 0 /\ poll_result = "none" /\ FALLBACK_LOGO_FULL = NoImage
    /\ album_art_full_res = NoImage /\ art_fetch = "none"
    /\ output_image = new_canvas /\ final_size = INITIAL_FONT_SIZE
    /\ artistname_display = <<>> /\ songname_display = <<>>
    /\ file = "absent" /\ iter_last = <<>> /\ rendered = FALSE
    /\ wrote = FALSE /\ last_saved = <<>> /\ failed_title = None
    /\ failed_at = "none"

IdleTrunc ==
    /\ tr_pc = "idle" /\ tr_text = <<>> /\ tr_font = truetype(base_font, 1)
    /\ tr_max_width = 1 /\ tr_out1 = <<>> /\ tr_out2 = <<>>

IdleFit ==
    /\ fit_pc = "idle" /\ fit_artist = <<>> /\ fit_title = <<>>
    /\ fit_max_width = 1 /\ fit_raiseA = 0 /\ fit_raiseT = 0
    /\ fit_size = INITIAL_FONT_SIZE

IdleCover ==
    /\ cv_pc = "idle" /\ cv_art = NoImage /\ cv_scaled = NoImage
    /\ cv_box = [x0 |-> 0, y0 |-> 0, x1 |-> 0, y1 |-> 0]
    /\ cv_out = new_canvas

----------------------------------------------------------------------------
\* truncate_text on every text, width assignment and max_width of the bounds

TruncChars == {"a", "b"}
TruncFonts == {[units |-> u, size |-> 1] :
                  u \in [TruncChars \cup {"."} -> 1..MaxCharWidth]}

InitTruncate ==
    /\ tr_pc = "start"
    /\ tr_text \in SeqsUpTo(TruncChars, MaxTruncLen)
    /\ tr_font \in TruncFonts
    /\ tr_max_width \in 1..MaxTruncWidth
    /\ tr_out1 = <<>> /\ tr_out2 = <<>>
    /\ IdleLoop /\ IdleFit /\ IdleCover

TruncateOnce ==
    /\ tr_pc = "start"
    /\ tr_out1' = truncate_text(tr_text, tr_font, tr_max_width)
    /\ tr_pc' = "once"
    /\ UNCHANGED <<tr_text, tr_font, tr_max_width, tr_out2>>
    /\ UNCHANGED <<loopVars, fitVars, coverVars>>

TruncateAgain ==
    /\ tr_pc = "once"
    /\ tr_out2' = truncate_text(tr_out1, tr_font, tr_max_width)
    /\ tr_pc' = "twice"
    /\ UNCHANGED <<tr_text, tr_font, tr_max_width, tr_out1>>
    /\ UNCHANGED <<loopVars, fitVars, coverVars>>

NextTruncate == TruncateOnce \/ TruncateAgain
SpecTruncate == InitTruncate /\ [][NextTruncate]_vars

----------------------------------------------------------------------------
\* The uniform font size on every artist, title and max_width of the bounds

FitChars == {"a", "A"}
RECURSIVE Pow5(_)
Pow5(k) == IF k = 0 THEN 1 ELSE 5 * Pow5(k - 1)
FitWidths == {Pow5(k) : k \in 0..MaxWidthExp}

InitFit ==
    /\ fit_pc = "start"
    /\ fit_artist \in SeqsUpTo(FitChars, MaxFitLen)
    /\ fit_title \in SeqsUpTo(FitChars, MaxFitLen)
    /\ fit_max_width \in FitWidths
    /\ fit_raiseA \in 0..INITIAL_FONT_SIZE
    /\ fit_raiseT \in 0..INITIAL_FONT_SIZE
    /\ fit_size = INITIAL_FONT_SIZE
    /\ IdleLoop /\ IdleTrunc /\ IdleCover

FitUniform ==
    /\ fit_pc = "start"
    /\ fit_size' = uniform_size(fit_artist, fit_title, base_font,
                                fit_max_width, fit_raiseA, fit_raiseT)
    /\ fit_pc' = "done"
    /\ UNCHANGED <<fit_artist, fit_title, fit_max_width, fit_raiseA, fit_raiseT>>
    /\ UNCHANGED <<loopVars, truncVars, coverVars>>

NextFit == FitUniform
SpecFit == InitFit /\ [][NextFit]_vars

----------------------------------------------------------------------------
\* The cover-fit on every artwork size of the bounds

InitCover ==
    /\ cv_pc = "start"
    /\ cv_art \in {[w |-> w, h |-> h, src |-> "fetched"] : w \in 1..MaxDim, h \in 1..MaxDim}
    /\ cv_scaled = NoImage
    /\ cv_box = [x0 |-> 0, y0 |-> 0, x1 |-> 0, y1 |-> 0]
    /\ cv_out = new_canvas
    /\ IdleLoop /\ IdleTrunc /\ IdleFit

CoverFit ==
    /\ cv_pc = "start"
    /\ \E scaled \in scaled_sizes(cv_art) :
          /\ cv_scaled' = [w |-> scaled.w, h |-> scaled.h, src |-> cv_art.src]
          /\ cv_box' = crop_box(cv_art, scaled)
          /\ cv_out' = paste_background(new_canvas, crop_box(cv_art, scaled))
    /\ cv_pc' = "done"
    /\ UNCHANGED cv_art
    /\ UNCHANGED <<loopVars, truncVars, fitVars>>

NextCover == CoverFit
SpecCover == InitCover /\ [][NextCover]_vars

----------------------------------------------------------------------------
\* The render loop (lines 258-411)

W9 == <<"w", "w", "w", "w", "w", "w", "w", "w", "w">>
Titles == {<<>>, <<"a", "b">>, W9}          \* titles a poll can return
Artists == {<<>>, W9}                       \* artists a poll can return
Urls == {"None", "url"}                     \* album_art_url: absent or present
ArtSizes == {<<4000, 1000>>, <<100, 4000>>}
LogoImage == [w |-> 200, h |-> 120, src |-> "logo"]
RaiseSizes == {0, INITIAL_FONT_SIZE}        \* where a measurement may raise

NoFile == [state |-> "absent", title |-> <<>>, w |-> 0, h |-> 0]

Init ==
    /\ pc = "poll"
    /\ last_songname = <<>>
    /\ songname = None /\ artistname = None /\ album_art_url = "None"
    /\ attempt = 0 /\ requests = 0 /\ poll_result = "none"
    /\ FALLBACK_LOGO_FULL \in {NoImage, LogoImage}
    /\ album_art_full_res = NoImage /\ art_fetch = "none"
    /\ output_image = new_canvas
    /\ final_size = INITIAL_FONT_SIZE
    /\ artistname_display = <<>> /\ songname_display = <<>>
    /\ file = NoFile
    /\ iter_last = <<>> /\ rendered = FALSE /\ wrote = FALSE
    /\ last_saved = <<>> /\ failed_title = None /\ failed_at = "none"
    /\ IdleTrunc /\ IdleFit /\ IdleCover

renderVars == <<album_art_full_res, art_fetch, output_image, final_size,
                artistname_display, songname_display>>
historyVars == <<iter_last, rendered, wrote, last_saved, failed_title, failed_at>>
otherVars == <<truncVars, fitVars, coverVars>>

\* Line 260: the iteration begins with the call of the poller
Poll ==
    /\ pc = "poll"
    /\ pc' = "fetch"
    /\ attempt' = 0 /\ requests' = 0 /\ poll_result' = "none"
    /\ iter_last' = last_songname /\ rendered' = FALSE /\ wrote' = FALSE
    /\ failed_at' = "none"
    /\ UNCHANGED <<last_songname, songname, artistname, album_art_url,
                   FALLBACK_LOGO_FULL, file, last_saved, failed_title>>
    /\ UNCHANGED <<renderVars, otherVars>>

\* Lines 189-226: the request answers 200 with JSON that parses
FetchOk ==
    /\ pc = "fetch" /\ attempt < MAX_RETRIES
    /\ requests' = requests + 1
    /\ songname' \in Titles
    /\ artistname' \in Artists
    /\ album_art_url' \in Urls
    /\ pc' = "decide"
    /\ attempt' = 0 /\ poll_result' = "ok"
    /\ UNCHANGED <<last_songname, FALLBACK_LOGO_FULL, file>>
    /\ UNCHANGED <<renderVars, historyVars, otherVars>>

\* Lines 191-193: a status other than 200 returns (None, None, None) at once
FetchBadStatus ==
    /\ pc = "fetch" /\ attempt < MAX_RETRIES
    /\ requests' = requests + 1
    /\ songname' = None /\ artistname' = None /\ album_art_url' = "None"
    /\ pc' = "decide"
    /\ attempt' = 0 /\ poll_result' = "status"
    /\ UNCHANGED <<last_songname, FALLBACK_LOGO_FULL, file>>
    /\ UNCHANGED <<renderVars, historyVars, otherVars>>

\* Lines 195-200: a body that is not JSON returns (None, None, None) at once
FetchNonJson ==
    /\ pc = "fetch" /\ attempt < MAX_RETRIES
    /\ requests' = requests + 1
    /\ songname' = None /\ artistname' = None /\ album_art_url' = "None"
    /\ pc' = "decide"
    /\ attempt' = 0 /\ poll_result' = "non_json"
    /\ UNCHANGED <<last_songname, FALLBACK_LOGO_FULL, file>>
    /\ UNCHANGED <<renderVars, historyVars, otherVars>>

\* Lines 228-230: any exception of the attempt (the request itself, or the
\* walk through the parsed data) is logged, slept on and the loop goes on
FetchException ==
    /\ pc = "fetch" /\ attempt < MAX_RETRIES
    /\ requests' = requests + 1
    /\ attempt' = attempt + 1
    /\ UNCHANGED <<pc, last_songname, songname, artistname, album_art_url,
                   poll_result, FALLBACK_LOGO_FULL, file>>
    /\ UNCHANGED <<renderVars, historyVars, otherVars>>

\* Lines 232-233: the for loop is exhausted
FetchGiveUp ==
    /\ pc = "fetch" /\ attempt = MAX_RETRIES
    /\ songname' = None /\ artistname' = None /\ album_art_url' = "None"
    /\ pc' = "decide"
    /\ attempt' = 0 /\ poll_result' = "exhausted"
    /\ UNCHANGED <<last_songname, requests, FALLBACK_LOGO_FULL, file>>
    /\ UNCHANGED <<renderVars, historyVars, otherVars>>

\* the guard without its comparison with last_songname
song_nonempty(song, last) == Truthy(song)

\* Line 262: songname and (songname != last_songname or not last_songname)
song_changed(song, last) == Truthy(song) /\ (song # last \/ ~Truthy(last))

\* Lines 262-267 and 403-404
Decide ==
    /\ pc = "decide"
    /\ IF song_changed(songname, last_songname)
       THEN /\ output_image' = new_canvas
            /\ rendered' = TRUE
            /\ pc' = "art"
       ELSE /\ pc' = "sleep"
            /\ UNCHANGED <<output_image, rendered>>
    /\ requests' = 0 /\ poll_result' = "none"   \* the poll's bookkeeping ends here
    /\ UNCHANGED <<last_songname, songname, artistname, album_art_url, attempt,
                   FALLBACK_LOGO_FULL, file, album_art_full_res,
                   art_fetch, final_size, artistname_display, songname_display,
                   iter_last, wrote, last_saved, failed_title, failed_at>>
    /\ UNCHANGED otherVars

\* fetch_album_art without its try/except: a network or decode error escapes
fetch_album_art_uncaught(url, outcome, image) ==
    [raised |-> outcome \in {"network", "decode"},
     img |-> IF url # "None" /\ outcome = "ok" THEN image ELSE NoImage]

\* fetch_album_art: every failure is caught inside and None is returned
fetch_album_art(url, outcome, image) ==
    [raised |-> FALSE,
     img |-> IF url # "None" /\ outcome = "ok" THEN image ELSE NoImage]

\* Lines 272-281: the artwork and its fallback
ResolveArt ==
    /\ pc = "art"
    /\ \E outcome \in IF album_art_url # "None"
                      THEN {"ok", "status", "network", "decode"}
                      ELSE {"skipped"},
          size \in ArtSizes :
          LET got == IF album_art_url # "None"
                     THEN fetch_album_art(album_art_url, outcome,
                              [w |-> size[1], h |-> size[2], src |-> "fetched"])
                     ELSE [raised |-> FALSE, img |-> NoImage]
          IN  IF got.raised
              THEN /\ pc' = "handler"
                   /\ failed_at' = "art" /\ failed_title' = songname
                   /\ art_fetch' = outcome
                   /\ UNCHANGED album_art_full_res
              ELSE /\ album_art_full_res' =
                          IF got.img = NoImage /\ FALLBACK_LOGO_FULL # NoImage
                          THEN FALLBACK_LOGO_FULL
                          ELSE got.img
                   /\ art_fetch' = outcome
                   /\ pc' = "background"
                   /\ UNCHANGED <<failed_at, failed_title>>
    /\ UNCHANGED <<last_songname, songname, artistname, album_art_url, attempt,
                   requests, poll_result, FALLBACK_LOGO_FULL, file, output_image, final_size,
                   artistname_display, songname_display, iter_last, rendered,
                   wrote, last_saved>>
    /\ UNCHANGED otherVars

\* Lines 284-304: the blurred background
Background ==
    /\ pc = "background"
    /\ IF album_art_full_res # NoImage
       THEN \E scaled \in scaled_sizes(album_art_full_res) :
               output_image' = paste_background(output_image,
                                   crop_box(album_art_full_res, scaled))
       ELSE UNCHANGED output_image
    /\ pc' = "overlay"
    /\ UNCHANGED <<last_songname, songname, artistname, album_art_url, attempt,
                   requests, poll_result, FALLBACK_LOGO_FULL, file, album_art_full_res,
                   art_fetch, final_size, artistname_display, songname_display>>
    /\ UNCHANGED <<historyVars, otherVars>>

\* Image.alpha_composite(im1, im2): the result has the size of im1
alpha_composite(canvas, overlay_logo) ==
    [canvas EXCEPT !.bar = TRUE, !.logo = overlay_logo]

\* Lines 306-349: thumbnail, border, bottom bar and logo block
Overlay ==
    /\ pc = "overlay"
    /\ \E logo_img \in BOOLEAN :
          output_image' = alpha_composite(
              [output_image EXCEPT !.thumb = (album_art_full_res # NoImage)],
              logo_img)
    /\ pc' = "text"
    /\ UNCHANGED <<last_songname, songname, artistname, album_art_url, attempt,
                   requests, poll_result, FALLBACK_LOGO_FULL, file, album_art_full_res,
                   art_fetch, final_size, artistname_display, songname_display>>
    /\ UNCHANGED <<historyVars, otherVars>>

\* Lines 353-391: uniform size, truncation and drawing of the two lines
DrawText ==
    /\ pc = "text"
    /\ \E raiseA \in RaiseSizes, raiseT \in RaiseSizes :
          LET size == uniform_size(artistname, songname, base_font,
                                   max_text_width, raiseA, raiseT)
              final_font == truetype(base_font, size)
          IN  /\ final_size' = size
              /\ artistname_display' =
                     truncate_text(upper(artistname), final_font, max_text_width)
              /\ songname_display' =
                     truncate_text(songname, final_font, max_text_width)
    /\ output_image' = [output_image EXCEPT !.text = TRUE]
    /\ pc' = "save"
    /\ UNCHANGED <<last_songname, songname, artistname, album_art_url, attempt,
                   requests, poll_result, FALLBACK_LOGO_FULL, file, album_art_full_res,
                   art_fetch>>
    /\ UNCHANGED <<historyVars, otherVars>>

\* Lines 394-401: the image is saved, then last_songname is advanced
Save ==
    /\ pc = "save"
    /\ file' = [state |-> "complete", title |-> songname,
                w |-> output_image.w, h |-> output_image.h]
    /\ last_songname' = songname
    /\ last_saved' = songname
    /\ wrote' = TRUE
    /\ failed_title' = IF failed_title = songname THEN None ELSE failed_title
    /\ pc' = "sleep"
    /\ UNCHANGED <<songname, artistname, album_art_url, attempt, requests,
                   poll_result, FALLBACK_LOGO_FULL, iter_last, rendered, failed_at>>
    /\ UNCHANGED <<renderVars, otherVars>>

\* last_songname advanced before the save that raises
SaveRaisesAfterAdvance ==
    /\ pc = "save"
    /\ file' \in {file, [state |-> "partial", title |-> songname,
                         w |-> output_image.w, h |-> output_image.h]}
    /\ last_songname' = songname
    /\ wrote' = TRUE
    /\ failed_title' = songname /\ failed_at' = "save"
    /\ pc' = "handler"
    /\ UNCHANGED <<songname, artistname, album_art_url, attempt,
                   requests, poll_result, FALLBACK_LOGO_FULL, iter_last, rendered, last_saved>>
    /\ UNCHANGED <<renderVars, otherVars>>

\* Line 399 raises: the file is untouched or left half written; control
\* passes to the except clause before line 401
SaveRaises ==
    /\ pc = "save"
    /\ file' \in {file, [state |-> "partial", title |-> songname,
                         w |-> output_image.w, h |-> output_image.h]}
    /\ wrote' = TRUE
    /\ failed_title' = songname /\ failed_at' = "save"
    /\ pc' = "handler"
    /\ UNCHANGED <<last_songname, songname, artistname, album_art_url, attempt,
                   requests, poll_result, FALLBACK_LOGO_FULL, iter_last, rendered, last_saved>>
    /\ UNCHANGED <<renderVars, otherVars>>

\* A resize, paste, font load, measurement or draw call of lines 284-396
\* raises: control passes to the except clause
RenderRaises ==
    /\ pc \in {"background", "overlay", "text"}
    /\ failed_title' = songname /\ failed_at' = pc
    /\ pc' = "handler"
    /\ UNCHANGED <<last_songname, songname, artistname, album_art_url, attempt,
                   requests, poll_result, FALLBACK_LOGO_FULL, file, iter_last, rendered,
                   wrote, last_saved>>
    /\ UNCHANGED <<renderVars, otherVars>>

\* Lines 406-407: the wait that ends an iteration without exception
Sleep ==
    /\ pc = "sleep"
    /\ pc' = "poll"
    /\ UNCHANGED <<last_songname, songname, artistname, album_art_url, attempt,
                   requests, poll_result, FALLBACK_LOGO_FULL, file>>
    /\ UNCHANGED <<renderVars, historyVars, otherVars>>

\* an except clause that lets the exception end the process
HandlerReraises ==
    /\ pc = "handler"
    /\ pc' = "crashed"
    /\ UNCHANGED <<last_songname, songname, artistname, album_art_url, attempt,
                   requests, poll_result, FALLBACK_LOGO_FULL, file>>
    /\ UNCHANGED <<renderVars, historyVars, otherVars>>

\* Lines 409-411: the except clause logs, waits and the while loop goes on
Handler ==
    /\ pc = "handler"
    /\ pc' = "poll"
    /\ UNCHANGED <<last_songname, songname, artistname, album_art_url, attempt,
                   requests, poll_result, FALLBACK_LOGO_FULL, file>>
    /\ UNCHANGED <<renderVars, historyVars, otherVars>>

Next ==
    \/ Poll \/ FetchOk \/ FetchBadStatus \/ FetchNonJson \/ FetchException
    \/ FetchGiveUp \/ Decide \/ ResolveArt \/ Background \/ Overlay
    \/ DrawText \/ Save \/ SaveRaises \/ RenderRaises \/ Sleep \/ Handler

Spec == Init /\ [][Next]_vars

----------------------------------------------------------------------------
\* Properties

RenderSteps == {"art", "background", "overlay", "text", "save"}

\* C1: an iteration whose polled title is empty, absent or equal to the
\* last accepted title enters no render, calls no save and leaves
\* last_songname as it was when the iteration began.
C1_RenderOnlyOnChange ==
    (~Truthy(songname) \/ songname = iter_last)
        => (~rendered /\ ~wrote /\ last_songname = iter_last)

\* the title of the saved image is polled again and the iteration is skipped
C1_Witness ==
    /\ pc = "sleep" /\ poll_result = "none"
    /\ Truthy(songname) /\ songname = iter_last
    /\ file.state = "complete" /\ file.title = songname
    /\ ~rendered

\* C2: an exception of a render step is caught (control reaches the except
\* clause with last_songname untouched), the except clause leads to the next
\* poll, and a later poll that returns the title of the failed render enters
\* the render again.
C2_FailureIsCaughtAndRetried ==
    [][ /\ (pc \in RenderSteps /\ pc' \notin RenderSteps \cup {"sleep"}
               => pc' = "handler" /\ last_songname' = last_songname)
        /\ (pc = "handler" => pc' = "poll")
        /\ (pc = "decide" /\ failed_title # None /\ songname = failed_title
               => pc' = "art" /\ rendered') ]_vars

\* the poll after a failed render returns the same title
C2_Witness ==
    /\ pc = "decide" /\ failed_title # None /\ songname = failed_title
    /\ file.state = "partial" /\ file.title = failed_title

\* C3: a poll is abandoned (None, None, None) only after max_retries
\* attempts, whatever the kind of failure of each attempt.
C3_AbandonedOnlyAfterMaxRetries ==
    (pc = "decide" /\ poll_result # "ok") => requests = MAX_RETRIES

\* C4: the artwork step never passes control to the except clause; the
\* fetched image is the artwork exactly when the fetch succeeded, and after a
\* failed fetch the artwork is the fallback logo, or none when no logo was
\* loaded.
C4_ArtworkNeverAborts ==
    /\ failed_at # "art"
    /\ pc = "background" =>
          /\ (album_art_full_res.src = "fetched" <=> art_fetch = "ok")
          /\ (art_fetch \in {"status", "network", "decode"}
                 => album_art_full_res = FALLBACK_LOGO_FULL)

\* the artwork URL answers 404 and the logo takes its place
C4_Witness ==
    /\ pc = "background" /\ art_fetch = "status"
    /\ album_art_url = "url" /\ album_art_full_res = LogoImage

\* C5: truncate_text never returns a string longer than its input.
C5_NeverLonger ==
    tr_pc \in {"once", "twice"} => Len(tr_out1) <= Len(tr_text)

\* C6: truncate_text applied to its own output returns that output.
C6_Idempotent ==
    tr_pc = "twice" => tr_out2 = tr_out1

SetMax(S) == CHOOSE x \in S : \A y \in S : y <= x

\* The size adjust_font_size stops at, stated without its loop: the largest
\* size of 1..20 at which the text fits, the measurement raises, or which is 1.
FittedSize(text, max_width, raiseAt) ==
    SetMax({s \in 1..INITIAL_FONT_SIZE :
               \/ s = 1
               \/ s = raiseAt
               \/ textbbox(text, truetype(base_font, s)) <= max_width})

\* C7: the uniform size lies in 1..20 and is the smaller of the two sizes
\* fitted one string at a time, a raising measurement ending that string's
\* fit at the size reached.
C7_UniformSizeIsMinOfFits ==
    fit_pc = "done" =>
        /\ fit_size \in 1..INITIAL_FONT_SIZE
        /\ fit_size = Min(FittedSize(fit_artist, fit_max_width, fit_raiseA),
                          FittedSize(fit_title, fit_max_width, fit_raiseT))

\* the artist is shrunk until its measurement raises, below the title's size
C7_Witness ==
    /\ fit_pc = "done"
    /\ fit_size = fit_raiseA /\ 1 < fit_size /\ fit_size < INITIAL_FONT_SIZE
    /\ textbbox(fit_artist, truetype(base_font, fit_size)) > fit_max_width
    /\ FittedSize(fit_title, fit_max_width, fit_raiseT) > fit_size

\* C8: the scaled artwork covers the canvas (the side named by the ratio
\* test is the canvas side, the other is the truncated quotient and is no
\* smaller than the canvas), the 320x240 crop lies inside it, and the output
\* is 320x240.
C8_CoverFitCoversCanvas ==
    cv_pc = "done" =>
        /\ cv_scaled.w >= TARGET_WIDTH /\ cv_scaled.h >= TARGET_HEIGHT
        /\ IF 3 * cv_art.w > 4 * cv_art.h
           THEN /\ cv_scaled.h = TARGET_HEIGHT
                /\ cv_scaled.w * cv_art.h <= TARGET_HEIGHT * cv_art.w
           ELSE /\ cv_scaled.w = TARGET_WIDTH
                /\ cv_scaled.h * cv_art.w <= TARGET_WIDTH * cv_art.h
        /\ 0 <= cv_box.x0 /\ cv_box.x1 <= cv_scaled.w
        /\ 0 <= cv_box.y0 /\ cv_box.y1 <= cv_scaled.h
        /\ cv_box.x1 - cv_box.x0 = TARGET_WIDTH
        /\ cv_box.y1 - cv_box.y0 = TARGET_HEIGHT
        /\ cv_out.w = TARGET_WIDTH /\ cv_out.h = TARGET_HEIGHT
        /\ cv_out.bg = "art"

\* a relatively wider artwork whose crop corner falls on a half pixel
C8_Witness ==
    /\ cv_pc = "done"
    /\ 3 * cv_art.w > 4 * cv_art.h
    /\ (cv_scaled.w - TARGET_WIDTH) % 2 = 1

\* C9: the uniform size is the smaller of the fitted size of the uppercased
\* artist and the fitted size of the title.
C9_FitsUppercasedArtist ==
    fit_pc = "done" =>
        fit_size = Min(FittedSize(upper(fit_artist), fit_max_width, fit_raiseA),
                       FittedSize(fit_title, fit_max_width, fit_raiseT))

\* C10: last_songname is the title of the most recent image saved with
\* success, the empty string while none was saved, and a complete file at
\* the output path is the image of last_songname.
C10_LastSongnameIsLastSaved ==
    /\ last_songname = last_saved
    /\ (file.state = "absent" => last_songname = <<>>)
    /\ (file.state = "complete" => file.title = last_songname)

\* a save raises after an earlier save of another title succeeded
C10_Witness ==
    /\ pc = "handler" /\ failed_at = "save"
    /\ last_saved # <<>> /\ failed_title # last_saved
    /\ file.state = "partial"

====
